---- MODULE Spec2Model ----
(***************************************************************************)
(* Model of daas_py_idx/main.py: the change-capture loop (event_listener)  *)
(* with the store-side notification buffer and the search index it drives, *)
(* and the override reindex planner (process_index_override) with its      *)
(* worker pool.                                                            *)
(***************************************************************************)
EXTENDS Integers, Sequences, FiniteSets, TLC

(* ------------------------------------------------------------------ *)
(* Bounds of the model                                                 *)
(* ------------------------------------------------------------------ *)

\* rows the store ever writes to the notification buffer (initial + live)
MaxId == 3
\* rows already in the notification buffer when the listener starts
MaxInit == 2
\* the clock stops advancing here
MaxTime == 3
\* latest day number of an override's source_ts
MaxSourceDay == 2
\* longest override window, target_ts - source_ts, in days
MaxSpanDays == 20
\* longest text cell, in characters
MaxLen == 4

(* ------------------------------------------------------------------ *)
(* Configuration of the domain                                         *)
(* ------------------------------------------------------------------ *)

IDX_BUFFER_SIZE == 1
IDX_BUFFER_DURATION == 2
IDX_BUFFER_RETRY_SECONDS == 1
IDX_OVERRIDE_TIMESTEP_DAY_SIZE == 7
IDX_OVERRIDE_CONCURRENT_THREAD_COUNT == 2

\* payloads: external keys of changed rows
Payloads == {"A1", "A2"}

VARIABLES
    pc,                 \* position of event_listener
    exc,                \* exception being propagated to the handlers of event_listener
    listener_conn,      \* "unbound" | "open" | "listening" | "broken" | "closed"
    notifies,           \* listener_conn.notifies: payloads queued on the connection
    notify_buffer,      \* the in-memory notify buffer
    last_executed_time, \* time of RECOVER or of the last completed flush
    data,               \* keys whose rows get_by_id returned to the current flush
    now,                \* time.time()
    persistent,         \* the store's notification buffer of DB_CHANNEL: rows [id, payload]
    nextId,             \* id the store gives to its next notification row
    index,              \* payloads whose documents the index has received
    failedSteps,        \* the PROCESS steps (1..5) that have failed in the current flush
    flushedKeys,        \* history: payloads that were in the key list of some flush
    everBuffered,       \* history: payloads the store has ever buffered
    initialPayloads,    \* history: payloads buffered before the listener started
    recovered,          \* history: payloads fetched by RECOVER, until the first flush ends
    reconnected,        \* history: the loop has gone through BACKOFF at least once
    fetched_keys,       \* history: the key lists handed to get_by_id in the current flush
    posted,             \* history: the document lists handed to solr.add in the current flush
    hook_outcome,       \* history: how process_business_logic ended in the current flush
    cause,              \* history: the error that was first raised, while exc propagates
    late                \* history: payloads notified after the fetch of a flush and not fetched since

VARIABLES
    o_pc,            \* position of process_index_override
    has_override,    \* the store holds an override record for DOMAIN
    source_ts,       \* its source timestamp, a day number
    target_ts,       \* its target timestamp, a day number
    batch_source_ts, \* index_override_batch_source_ts
    batch_target_ts, \* index_override_batch_target_ts
    futures,         \* the submitted batch_params, in submission order
    task,            \* task[i]: where the process_batch call of futures[i] stands
    upserts,         \* tasks whose documents the index has received
    collected,       \* futures the as_completed loop has taken the result of
    archive_called,  \* the CALL of clean_index_override was issued
    archived,        \* the override record is archived in the store
    ret,             \* what process_index_override returned
    task_rows,       \* task_rows[i]: what get_all returned to the process_batch call of futures[i]
    invoked,         \* tasks that have called update_solr
    p_pc,            \* position of process_all
    refresh,         \* the get_all() without a window of process_all: "none" when not called
    p_add            \* the solr.add of the update_solr call of process_all

VARIABLES
    n_pc,         \* how far one cell has come on its way from the store to the index
    raw,          \* the value as the store driver returned it
    table_cell,   \* the value in the DataFrame of get_all / get_by_id
    record_cell,  \* the value in the record update_solr reads from the table
    normalised,   \* the value in the record handed to solr.add
    again         \* that value normalised once more

nvars == <<n_pc, raw, table_cell, record_cell, normalised, again>>

\* variables of the process_batch calls beside task
wvars == <<task_rows, invoked>>

\* variables of process_all
pvars == <<p_pc, refresh, p_add>>

ovars == <<o_pc, has_override, source_ts, target_ts, batch_source_ts, batch_target_ts,
           futures, task, upserts, collected, archive_called, archived, ret, wvars, pvars>>

lvars == <<pc, exc, listener_conn, notifies, notify_buffer, last_executed_time, data,
           now, persistent, nextId, index, failedSteps, flushedKeys, everBuffered,
           initialPayloads, recovered, reconnected, fetched_keys, posted, hook_outcome,
           cause, late>>

(* ------------------------------------------------------------------ *)
(* Helpers                                                             *)
(* ------------------------------------------------------------------ *)

Range(s) == {s[i] : i \in 1..Len(s)}

Min(a, b) == IF a <= b THEN a ELSE b

\* the payload column of the fetched rows, in fetch order (main.py 174-177)
PayloadsOf(rows) == [i \in 1..Len(rows) |-> rows[i].payload]

\* get_event_notification_buffer(channel): the rows of the channel
DrainPending(rows) == rows

\* clean_event_notification_buffer(json, channel): removes the rows of the
\* channel whose payload appears in the supplied list
RemoveAcked(rows, keys) == SelectSeq(rows, LAMBDA r : r.payload \notin Range(keys))

\* all contents of the persistent buffer with n rows, ids 1..n
BuffersOfLen(n) == {[i \in 1..n |-> [id |-> i, payload |-> f[i]]] : f \in [1..n -> Payloads]}

InitBuffers == UNION {BuffersOfLen(n) : n \in 0..MaxInit}

\* a key list cut to its first payload
FlushKeys_first(buffer) == SubSeq(buffer, 1, 1)

\* the key list handed to get_by_id (main.py 190)
FlushKeys(buffer) == buffer

\* an acknowledge of the newest key only
AckKeys_last(buffer) == SubSeq(buffer, Len(buffer), Len(buffer))

\* the key list handed to clean_event_notification_by_id (main.py 195)
AckKeys(buffer) == buffer

\* a RECOVER that appends to the buffer of the previous connection
RecoverBuffer_carry(old, rows) == old \o PayloadsOf(rows)

\* the buffer RECOVER builds: reset, then every fetched payload appended (main.py 164, 174-177)
RecoverBuffer(old, rows) == PayloadsOf(rows)

\* a drain that puts the new notifications in front of the buffer
DrainNotifies_front(buffer, queue) == queue \o buffer

\* the inner while: every queued notification appended, in arrival order (main.py 182-185)
DrainNotifies(buffer, queue) == buffer \o queue

\* a size trigger that already fires at the threshold
FlushTrigger_ge(buffer, t, last) ==
    Len(buffer) >= IDX_BUFFER_SIZE \/ t - last >= IDX_BUFFER_DURATION

\* the flush predicate (main.py 188)
FlushTrigger(buffer, t, last) ==
    Len(buffer) > IDX_BUFFER_SIZE \/ t - last >= IDX_BUFFER_DURATION

\* the guard of the flush body (main.py 189)
NonEmpty(buffer) == buffer # <<>>

(* ------------------------------------------------------------------ *)
(* Initial state                                                       *)
(* ------------------------------------------------------------------ *)

LInit ==
    /\ pc = "connect"
    /\ exc = "none"
    /\ listener_conn = "unbound"
    /\ notifies = <<>>
    /\ notify_buffer = <<>>
    /\ last_executed_time = 0
    /\ data = <<>>
    /\ now = 0
    /\ persistent \in InitBuffers
    /\ nextId = Len(persistent) + 1
    /\ index = {}
    /\ failedSteps = {}
    /\ flushedKeys = {}
    /\ everBuffered = Range(PayloadsOf(persistent))
    /\ initialPayloads = Range(PayloadsOf(persistent))
    /\ recovered = <<>>
    /\ reconnected = FALSE
    /\ fetched_keys = <<>>
    /\ posted = <<>>
    /\ hook_outcome = "none"
    /\ cause = "none"
    /\ late = {}

(* ------------------------------------------------------------------ *)
(* The environment: the store and the clock                            *)
(* ------------------------------------------------------------------ *)

\* a row of the domain changes: the store buffers a notification and NOTIFYs
\* the channel; a session that is LISTENing gets it queued
StoreNotify ==
    /\ nextId <= MaxId
    /\ \E p \in Payloads :
        /\ persistent' = Append(persistent, [id |-> nextId, payload |-> p])
        /\ everBuffered' = everBuffered \cup {p}
        /\ notifies' = IF listener_conn = "listening" THEN Append(notifies, p) ELSE notifies
        /\ late' = IF pc \in {"hook", "update_solr", "clean"} THEN late \cup {p} ELSE late
    /\ nextId' = nextId + 1
    /\ UNCHANGED <<pc, exc, listener_conn, notify_buffer, last_executed_time, data, now,
                   index, failedSteps, flushedKeys, initialPayloads, recovered, reconnected>>
    /\ UNCHANGED <<fetched_keys, posted, hook_outcome, cause>>
    /\ UNCHANGED <<ovars, nvars>>

Tick ==
    /\ now < MaxTime
    /\ now' = now + 1
    /\ UNCHANGED <<pc, exc, listener_conn, notifies, notify_buffer, last_executed_time,
                   data, persistent, nextId, index, failedSteps, flushedKeys, everBuffered,
                   initialPayloads, recovered, reconnected>>
    /\ UNCHANGED <<fetched_keys, posted, hook_outcome, cause>>
    /\ UNCHANGED late
    /\ UNCHANGED <<ovars, nvars>>

(* ------------------------------------------------------------------ *)
(* event_listener                                                      *)
(* ------------------------------------------------------------------ *)

\* a try block that reads the persistent buffer before it subscribes
NextAfter_drainFirst(step) ==
    CASE step = "connect" -> "recover"
      [] step = "recover" -> "subscribe"
      [] step = "subscribe" -> "poll"

\* the order of the statements of the try block: setup_connection, LISTEN,
\* the fetch of the persistent buffer, the poll loop (main.py 158-180)
NextAfter(step) ==
    CASE step = "connect" -> "subscribe"
      [] step = "subscribe" -> "recover"
      [] step = "recover" -> "poll"

\* CONNECT: setup_connection and autocommit (main.py 158-159)
Connect ==
    /\ pc = "connect"
    /\ \E ok \in BOOLEAN :
        IF ok
        THEN /\ listener_conn' = "open"
             /\ pc' = NextAfter("connect")
             /\ exc' = "none"
        ELSE /\ listener_conn' = listener_conn
             /\ pc' = "backoff"
             /\ exc' = "OperationalError"
    /\ UNCHANGED <<notifies, notify_buffer, last_executed_time, data, now, persistent,
                   nextId, index, failedSteps, flushedKeys, everBuffered, initialPayloads,
                   recovered, reconnected>>
    /\ cause' = exc'
    /\ UNCHANGED <<fetched_keys, posted, hook_outcome>>
    /\ UNCHANGED late
    /\ UNCHANGED <<ovars, nvars>>

\* LISTEN channel (main.py 161)
Subscribe ==
    /\ pc = "subscribe"
    /\ \E ok \in BOOLEAN :
        IF ok
        THEN /\ listener_conn' = "listening"
             /\ pc' = NextAfter("subscribe")
             /\ exc' = "none"
        ELSE /\ listener_conn' = "broken"
             /\ pc' = "backoff"
             /\ exc' = "OperationalError"
    /\ UNCHANGED <<notifies, notify_buffer, last_executed_time, data, now, persistent,
                   nextId, index, failedSteps, flushedKeys, everBuffered, initialPayloads,
                   recovered, reconnected>>
    /\ cause' = exc'
    /\ UNCHANGED <<fetched_keys, posted, hook_outcome>>
    /\ UNCHANGED late
    /\ UNCHANGED <<ovars, nvars>>

\* RECOVER: reset the buffer and the flush clock, fetch the persistent buffer,
\* append every payload (main.py 164-177)
Recover ==
    /\ pc = "recover"
    /\ \E ok \in BOOLEAN :
        IF ok
        THEN /\ notify_buffer' = RecoverBuffer(notify_buffer, DrainPending(persistent))
             /\ recovered' = PayloadsOf(DrainPending(persistent))
             /\ listener_conn' = listener_conn
             /\ pc' = NextAfter("recover")
             /\ exc' = "none"
        ELSE /\ notify_buffer' = RecoverBuffer(notify_buffer, <<>>)
             /\ recovered' = <<>>
             /\ listener_conn' = "broken"
             /\ pc' = "backoff"
             /\ exc' = "OperationalError"
    /\ last_executed_time' = now
    /\ UNCHANGED <<notifies, data, now, persistent, nextId, index, failedSteps, flushedKeys,
                   everBuffered, initialPayloads, reconnected>>
    /\ cause' = exc'
    /\ UNCHANGED <<fetched_keys, posted, hook_outcome>>
    /\ UNCHANGED late
    /\ UNCHANGED <<ovars, nvars>>

\* LISTEN: poll, then move every queued notification to the buffer (main.py 181-185)
Poll ==
    /\ pc = "poll"
    /\ \E ok \in BOOLEAN :
        IF ok
        THEN /\ notify_buffer' = DrainNotifies(notify_buffer, notifies)
             /\ notifies' = <<>>
             /\ listener_conn' = listener_conn
             /\ pc' = "check"
             /\ exc' = "none"
        ELSE /\ UNCHANGED <<notify_buffer, notifies>>
             /\ listener_conn' = "broken"
             /\ pc' = "backoff"
             /\ exc' = "OperationalError"
    /\ UNCHANGED <<last_executed_time, data, now, persistent, nextId, index, failedSteps,
                   flushedKeys, everBuffered, initialPayloads, recovered, reconnected>>
    /\ cause' = exc'
    /\ UNCHANGED <<fetched_keys, posted, hook_outcome>>
    /\ UNCHANGED late
    /\ UNCHANGED <<ovars, nvars>>

\* the flush decision of one poll iteration (main.py 188-189)
Check ==
    /\ pc = "check"
    /\ pc' = IF FlushTrigger(notify_buffer, now, last_executed_time) /\ NonEmpty(notify_buffer)
             THEN "get_by_id"
             ELSE "poll"
    /\ UNCHANGED <<exc, listener_conn, notifies, notify_buffer, last_executed_time, data,
                   now, persistent, nextId, index, failedSteps, flushedKeys, everBuffered,
                   initialPayloads, recovered, reconnected>>
    /\ UNCHANGED <<fetched_keys, posted, hook_outcome, cause>>
    /\ UNCHANGED late
    /\ UNCHANGED <<ovars, nvars>>

\* what a store operation raises after its try block failed: the except block
\* logs the error, then cursor.close() of the finally block (failed
\* setup_connection) or "return arrow_table" (failed statement) meets an
\* unbound name (main.py 84-90)
StoreOpRaises(original) == "UnboundLocalError"

\* the rows of get_by_id for a key list: one row per key, in the order of the keys
FetchedRows(keys) == keys

\* PROCESS step 1: get_by_id with the whole buffer. A failure inside is logged,
\* and the function then raises UnboundLocalError at cursor.close() or at
\* return arrow_table (main.py 62-90, 190)
GetById ==
    /\ pc = "get_by_id"
    /\ flushedKeys' = flushedKeys \cup Range(FlushKeys(notify_buffer))
    /\ fetched_keys' = Append(fetched_keys, FlushKeys(notify_buffer))
    /\ \E outcome \in {"ok", "OperationalError", "DatabaseError"} :
        IF outcome = "ok"
        THEN /\ data' = FetchedRows(FlushKeys(notify_buffer))
             /\ late' = late \ Range(FlushKeys(notify_buffer))
             /\ pc' = "hook"
             /\ UNCHANGED <<exc, failedSteps, cause>>
        ELSE /\ data' = data
             /\ late' = late
             /\ pc' = "backoff"
             /\ exc' = StoreOpRaises(outcome)
             /\ cause' = outcome
             /\ failedSteps' = failedSteps \cup {1}
    /\ UNCHANGED <<listener_conn, notifies, notify_buffer, last_executed_time, now,
                   persistent, nextId, index, everBuffered, initialPayloads, recovered,
                   reconnected>>
    /\ UNCHANGED <<posted, hook_outcome>>
    /\ UNCHANGED <<ovars, nvars>>

\* a hook whose absence is an error
HookRaises_absent(outcome) == outcome \in {"raise", "absent"}

\* process_business_logic: ModuleNotFoundError is caught and a module without
\* process is passed over, each with a warning; what process itself raises
\* propagates (main.py 220-235)
HookRaises(outcome) == outcome = "raise"

\* PROCESS step 3: process_business_logic. A missing module or a module without
\* process is a warning; an exception of the hook propagates (main.py 220-235, 191)
Hook ==
    /\ pc = "hook"
    /\ \E outcome \in {"absent", "ok", "raise"} :
        /\ hook_outcome' = outcome
        /\ IF HookRaises(outcome)
           THEN /\ pc' = "backoff"
                /\ exc' = "Exception"
                /\ cause' = "Exception"
                /\ failedSteps' = failedSteps \cup {3}
           ELSE /\ pc' = "update_solr"
                /\ UNCHANGED <<exc, failedSteps, cause>>
    /\ UNCHANGED <<listener_conn, notifies, notify_buffer, last_executed_time, data, now,
                   persistent, nextId, index, flushedKeys, everBuffered, initialPayloads,
                   recovered, reconnected>>
    /\ UNCHANGED <<fetched_keys, posted>>
    /\ UNCHANGED late
    /\ UNCHANGED <<ovars, nvars>>

\* PROCESS steps 2 and 4: update_solr normalises the records and adds them to
\* the index; every exception is caught and logged inside (main.py 107-144, 192)
UpdateSolr ==
    /\ pc = "update_solr"
    /\ \E outcome \in {"ok", "normalise_fail", "add_fail"} :
        /\ index' = IF outcome = "ok" THEN index \cup Range(data) ELSE index
        /\ posted' = IF outcome = "normalise_fail" THEN posted ELSE Append(posted, data)
        /\ failedSteps' = CASE outcome = "ok" -> failedSteps
                            [] outcome = "normalise_fail" -> failedSteps \cup {2}
                            [] outcome = "add_fail" -> failedSteps \cup {4}
    /\ pc' = "clean"
    /\ UNCHANGED <<exc, listener_conn, notifies, notify_buffer, last_executed_time, data,
                   now, persistent, nextId, flushedKeys, everBuffered, initialPayloads,
                   recovered, reconnected>>
    /\ UNCHANGED <<fetched_keys, hook_outcome, cause>>
    /\ UNCHANGED late
    /\ UNCHANGED <<ovars, nvars>>

\* PROCESS step 5: clean_event_notification_by_id. A failed statement or commit
\* is caught and logged inside; a failed setup_connection ends in
\* UnboundLocalError at cursor.close() (main.py 92-105, 195)
Clean ==
    /\ pc = "clean"
    /\ \E outcome \in {"ok", "statement_fail", "connect_fail"} :
        /\ persistent' = IF outcome = "ok"
                         THEN RemoveAcked(persistent, AckKeys(notify_buffer))
                         ELSE persistent
        /\ failedSteps' = IF outcome = "ok" THEN failedSteps ELSE failedSteps \cup {5}
        /\ pc' = IF outcome = "connect_fail" THEN "backoff" ELSE "clear"
        /\ exc' = IF outcome = "connect_fail" THEN StoreOpRaises("OperationalError") ELSE exc
        /\ cause' = IF outcome = "connect_fail" THEN "OperationalError" ELSE cause
    /\ UNCHANGED <<listener_conn, notifies, notify_buffer, last_executed_time, data, now,
                   nextId, index, flushedKeys, everBuffered, initialPayloads, recovered,
                   reconnected>>
    /\ UNCHANGED <<fetched_keys, posted, hook_outcome>>
    /\ UNCHANGED late
    /\ UNCHANGED <<ovars, nvars>>

\* PROCESS step 6: clear the buffer, restart the flush clock (main.py 197-198)
Clear ==
    /\ pc = "clear"
    /\ notify_buffer' = <<>>
    /\ last_executed_time' = now
    /\ pc' = "poll"
    /\ data' = <<>>
    /\ failedSteps' = {}
    /\ recovered' = <<>>
    /\ UNCHANGED <<exc, listener_conn, notifies, now, persistent, nextId, index,
                   flushedKeys, everBuffered, initialPayloads, reconnected>>
    /\ fetched_keys' = <<>>
    /\ posted' = <<>>
    /\ hook_outcome' = "none"
    /\ UNCHANGED <<cause>>
    /\ UNCHANGED late
    /\ UNCHANGED <<ovars, nvars>>

\* BACKOFF: either handler logs and sleeps retry_delay (main.py 200-208)
Backoff ==
    /\ pc = "backoff"
    /\ exc \in {"OperationalError", "UnboundLocalError", "Exception"}
    /\ now' = Min(now + IDX_BUFFER_RETRY_SECONDS, MaxTime)
    /\ exc' = "none"
    /\ cause' = "none"
    /\ pc' = "finally"
    /\ UNCHANGED <<listener_conn, notifies, notify_buffer, last_executed_time, data,
                   persistent, nextId, index, failedSteps, flushedKeys, everBuffered,
                   initialPayloads, recovered, reconnected>>
    /\ UNCHANGED <<fetched_keys, posted, hook_outcome>>
    /\ UNCHANGED late
    /\ UNCHANGED <<ovars, nvars>>

\* a finally block whose cleanup error leaves the loop
AfterFinally_exit(conn) == IF conn = "unbound" THEN "exit" ELSE "connect"

\* where the loop goes after the finally block: a cleanup error (the names are
\* unbound when the first connect failed) is caught and logged (main.py 210-218, 155)
AfterFinally(conn) == "connect"

\* finally: close cursor and connection, then the next iteration of while True
Finally ==
    /\ pc = "finally"
    /\ listener_conn' = IF listener_conn = "unbound" THEN "unbound" ELSE "closed"
    /\ notifies' = <<>>
    /\ pc' = AfterFinally(listener_conn)
    /\ data' = <<>>
    /\ failedSteps' = {}
    /\ reconnected' = TRUE
    /\ UNCHANGED <<exc, notify_buffer, last_executed_time, now, persistent, nextId, index,
                   flushedKeys, everBuffered, initialPayloads, recovered>>
    /\ fetched_keys' = <<>>
    /\ posted' = <<>>
    /\ hook_outcome' = "none"
    /\ UNCHANGED <<cause>>
    /\ UNCHANGED late
    /\ UNCHANGED <<ovars, nvars>>

LNext ==
    \/ StoreNotify
    \/ Tick
    \/ Connect
    \/ Subscribe
    \/ Recover
    \/ Poll
    \/ Check
    \/ GetById
    \/ Hook
    \/ UpdateSolr
    \/ Clean
    \/ Clear
    \/ Backoff
    \/ Finally

\* the listener before event_listener is entered
LIdle == LInit /\ persistent = <<>>

(* ------------------------------------------------------------------ *)
(* process_index_override and its worker pool                          *)
(* ------------------------------------------------------------------ *)

\* a loop that stops one window early
LoopContinues_strict(batch_target, target) == batch_target < target

\* the condition of the batching loop (main.py 268)
LoopContinues(batch_target, target) == batch_target <= target

\* the end of the next batch (main.py 270)
BatchEnd(batch_source) == batch_source + IDX_OVERRIDE_TIMESTEP_DAY_SIZE

\* process_batch calls that hold a thread of the pool
Running == {i \in 1..Len(task) : task[i] \in {"get_all", "hook", "update_solr"}}

\* process_batch calls that have ended
Done == {i \in 1..Len(task) : task[i] \in {"returned", "raised"}}

OInit ==
    /\ o_pc = "connect"
    /\ has_override \in BOOLEAN
    /\ source_ts \in 1..MaxSourceDay
    /\ target_ts \in (source_ts - 1)..(source_ts + MaxSpanDays)
    /\ batch_source_ts = 0
    /\ batch_target_ts = 0
    /\ futures = <<>>
    /\ task = <<>>
    /\ upserts = {}
    /\ collected = {}
    /\ archive_called = FALSE
    /\ archived = FALSE
    /\ ret = "pending"
    /\ task_rows = <<>>
    /\ invoked = {}
    /\ p_pc = "planner"
    /\ refresh = "none"
    /\ p_add = "none"

\* the planner when full refresh is not run
OIdle ==
    /\ o_pc = "off"
    /\ has_override = FALSE
    /\ source_ts = 1
    /\ target_ts = 1
    /\ batch_source_ts = 0
    /\ batch_target_ts = 0
    /\ futures = <<>>
    /\ task = <<>>
    /\ upserts = {}
    /\ collected = {}
    /\ archive_called = FALSE
    /\ archived = FALSE
    /\ ret = "pending"
    /\ task_rows = <<>>
    /\ invoked = {}
    /\ p_pc = "off"
    /\ refresh = "none"
    /\ p_add = "none"

\* setup_connection; when it fails the except block logs and cursor.close() in
\* the finally block raises UnboundLocalError out of the function (main.py 240, 304-308)
OConnect ==
    /\ o_pc = "connect"
    /\ \E ok \in BOOLEAN :
        IF ok
        THEN o_pc' = "read" /\ ret' = ret
        ELSE o_pc' = "done" /\ ret' = "raised"
    /\ UNCHANGED <<has_override, source_ts, target_ts, batch_source_ts, batch_target_ts,
                   futures, task, upserts, collected, archive_called, archived>>
    /\ UNCHANGED <<wvars, pvars, lvars, nvars>>

\* read the override record; none: return False; a failed statement is
\* logged and the function returns None (main.py 241-264, 304-309)
OReadOverride ==
    /\ o_pc = "read"
    /\ \E ok \in BOOLEAN :
        IF ~ok
        THEN /\ o_pc' = "done"
             /\ ret' = "None"
             /\ UNCHANGED <<batch_source_ts, batch_target_ts>>
        ELSE IF ~has_override
        THEN /\ o_pc' = "done"
             /\ ret' = "False"
             /\ UNCHANGED <<batch_source_ts, batch_target_ts>>
        ELSE /\ o_pc' = "plan"
             /\ ret' = ret
             /\ batch_source_ts' = source_ts
             /\ batch_target_ts' = source_ts
    /\ UNCHANGED <<has_override, source_ts, target_ts, futures, task, upserts, collected,
                   archive_called, archived>>
    /\ UNCHANGED <<wvars, pvars, lvars, nvars>>

\* one iteration of the batching loop: submit the next sub-window (main.py 268-284)
OSubmit ==
    /\ o_pc = "plan"
    /\ LoopContinues(batch_target_ts, target_ts)
    /\ batch_target_ts' = BatchEnd(batch_source_ts)
    /\ futures' = Append(futures, [batch_start_ts |-> batch_source_ts,
                                   batch_end_ts |-> BatchEnd(batch_source_ts)])
    /\ task' = Append(task, "queued")
    /\ task_rows' = Append(task_rows, "none")
    /\ batch_source_ts' = BatchEnd(batch_source_ts)
    /\ UNCHANGED <<o_pc, has_override, source_ts, target_ts, upserts, collected,
                   archive_called, archived, ret>>
    /\ UNCHANGED <<invoked, pvars, lvars, nvars>>

\* the batching loop ends (main.py 268, 287)
OEndPlan ==
    /\ o_pc = "plan"
    /\ ~LoopContinues(batch_target_ts, target_ts)
    /\ o_pc' = "await"
    /\ UNCHANGED <<has_override, source_ts, target_ts, batch_source_ts, batch_target_ts,
                   futures, task, upserts, collected, archive_called, archived, ret>>
    /\ UNCHANGED <<wvars, pvars, lvars, nvars>>

\* a pool that starts a thread for every submitted task
PoolHasIdleThread_unbounded(running) == Cardinality(running) >= 0

\* ThreadPoolExecutor(max_workers=...): a queued task starts only while fewer
\* than max_workers threads are busy (main.py 267)
PoolHasIdleThread(running) == Cardinality(running) < IDX_OVERRIDE_CONCURRENT_THREAD_COUNT

\* a thread of the pool takes the oldest queued task (main.py 267, 280)
WorkerStart(i) ==
    /\ task[i] = "queued"
    /\ \A j \in 1..(i - 1) : task[j] # "queued"
    /\ PoolHasIdleThread(Running)
    /\ task' = [task EXCEPT ![i] = "get_all"]
    /\ UNCHANGED <<o_pc, has_override, source_ts, target_ts, batch_source_ts,
                   batch_target_ts, futures, upserts, collected, archive_called, archived, ret>>
    /\ UNCHANGED <<wvars, pvars, lvars, nvars>>

\* "if not data": a table without rows is false (main.py 323)
IsEmptyTable(table) == table = "empty"

\* process_batch: get_all of the sub-window. A failure inside get_all is logged
\* and the function raises UnboundLocalError; no rows: return True
\* (main.py 321-324, 30-60)
WorkerGetAll(i) ==
    /\ task[i] = "get_all"
    /\ \E outcome \in {"rows", "empty", "fail"} :
        /\ task' = [task EXCEPT ![i] = CASE outcome = "fail" -> "raised"
                                          [] IsEmptyTable(outcome) -> "returned"
                                          [] OTHER -> "hook"]
        /\ task_rows' = [task_rows EXCEPT ![i] = outcome]
    /\ UNCHANGED <<o_pc, has_override, source_ts, target_ts, batch_source_ts,
                   batch_target_ts, futures, upserts, collected, archive_called, archived, ret>>
    /\ UNCHANGED <<invoked, pvars, lvars, nvars>>

\* process_batch: process_business_logic; an exception of the hook propagates
\* (main.py 326, 220-235)
WorkerHook(i) ==
    /\ task[i] = "hook"
    /\ \E outcome \in {"absent", "ok", "raise"} :
        task' = [task EXCEPT ![i] = IF outcome = "raise" THEN "raised" ELSE "update_solr"]
    /\ UNCHANGED <<o_pc, has_override, source_ts, target_ts, batch_source_ts,
                   batch_target_ts, futures, upserts, collected, archive_called, archived, ret>>
    /\ UNCHANGED <<wvars, pvars, lvars, nvars>>

\* process_batch: update_solr adds the documents to the index and catches
\* every exception; return True (main.py 327-330, 107-144)
WorkerUpdateSolr(i) ==
    /\ task[i] = "update_solr"
    /\ \E ok \in BOOLEAN :
        upserts' = IF ok THEN upserts \cup {i} ELSE upserts
    /\ invoked' = invoked \cup {i}
    /\ task' = [task EXCEPT ![i] = "returned"]
    /\ UNCHANGED <<o_pc, has_override, source_ts, target_ts, batch_source_ts,
                   batch_target_ts, futures, collected, archive_called, archived, ret>>
    /\ UNCHANGED <<task_rows, pvars, lvars, nvars>>

\* as_completed hands over a finished future; its exception is caught and
\* logged, a false result is logged (main.py 287-293)
OCollect(i) ==
    /\ o_pc = "await"
    /\ i \in Done \ collected
    /\ collected' = collected \cup {i}
    /\ UNCHANGED <<o_pc, has_override, source_ts, target_ts, batch_source_ts,
                   batch_target_ts, futures, task, upserts, archive_called, archived, ret>>
    /\ UNCHANGED <<wvars, pvars, lvars, nvars>>

\* a loop over the futures that ends with the first one completed
AsCompletedExhausted_first(coll, n) == coll # {} \/ n = 0

\* the loop over as_completed(futures) ends when every submitted future has
\* been handed over, and the with block is left when the pool has joined
\* (main.py 267, 287-293)
AsCompletedExhausted(coll, n) == coll = 1..n

\* the pool has drained: archive the override record, commit, return True; a
\* failed CALL is logged and the function returns None (main.py 295-309)
OArchive ==
    /\ o_pc = "await"
    /\ AsCompletedExhausted(collected, Len(futures))
    /\ o_pc' = "done"
    /\ archive_called' = TRUE
    /\ \E ok \in BOOLEAN :
        /\ archived' = ok
        /\ ret' = IF ok THEN "True" ELSE "None"
    /\ UNCHANGED <<has_override, source_ts, target_ts, batch_source_ts, batch_target_ts,
                   futures, task, upserts, collected>>
    /\ UNCHANGED <<wvars, pvars, lvars, nvars>>

(* ------------------------------------------------------------------ *)
(* process_all                                                         *)
(* ------------------------------------------------------------------ *)

\* "if not process_index_override()": False and None both pass (main.py 147)
RunsFullRefresh(result) == result \in {"False", "None"}

\* process_index_override has ended: its exception leaves process_all, a
\* false result starts the get_all() without a window (main.py 147-148)
PDispatch ==
    /\ p_pc = "planner"
    /\ o_pc = "done"
    /\ IF ret = "raised"
       THEN p_pc' = "raised" /\ refresh' = refresh
       ELSE IF RunsFullRefresh(ret)
       THEN p_pc' = "get_all" /\ refresh' = "called"
       ELSE p_pc' = "end" /\ refresh' = refresh
    /\ UNCHANGED <<o_pc, has_override, source_ts, target_ts, batch_source_ts, batch_target_ts,
                   futures, task, upserts, collected, archive_called, archived, ret, wvars,
                   p_add>>
    /\ UNCHANGED <<lvars, nvars>>

\* get_all() over the whole domain; a failure inside is logged and the
\* function raises UnboundLocalError, which leaves process_all (main.py 148, 30-60)
PGetAll ==
    /\ p_pc = "get_all"
    /\ \E outcome \in {"rows", "empty", "fail"} :
        /\ refresh' = IF outcome = "fail" THEN "raised" ELSE outcome
        /\ p_pc' = IF outcome = "fail" THEN "raised" ELSE "hook"
    /\ UNCHANGED <<o_pc, has_override, source_ts, target_ts, batch_source_ts, batch_target_ts,
                   futures, task, upserts, collected, archive_called, archived, ret, wvars,
                   p_add>>
    /\ UNCHANGED <<lvars, nvars>>

\* process_business_logic on the table, whatever its size (main.py 149, 220-235)
PHook ==
    /\ p_pc = "hook"
    /\ \E outcome \in {"absent", "ok", "raise"} :
        p_pc' = IF outcome = "raise" THEN "raised" ELSE "update_solr"
    /\ UNCHANGED <<o_pc, has_override, source_ts, target_ts, batch_source_ts, batch_target_ts,
                   futures, task, upserts, collected, archive_called, archived, ret, wvars,
                   refresh, p_add>>
    /\ UNCHANGED <<lvars, nvars>>

\* "if arrow_table == None": warning and return (main.py 117-119)
SkipsUpsert(table) == table = "None"

\* update_solr of process_all: past the guard the records are normalised and
\* solr.add posts them, also when there are none; every failure is caught
\* (main.py 150, 107-144)
PUpdateSolr ==
    /\ p_pc = "update_solr"
    /\ IF SkipsUpsert(refresh)
       THEN p_add' = p_add
       ELSE \E outcome \in {"ok", "normalise_fail", "add_fail"} :
                p_add' = CASE outcome = "ok" -> "posted"
                           [] outcome = "add_fail" -> "failed"
                           [] OTHER -> p_add
    /\ p_pc' = "end"
    /\ UNCHANGED <<o_pc, has_override, source_ts, target_ts, batch_source_ts, batch_target_ts,
                   futures, task, upserts, collected, archive_called, archived, ret, wvars,
                   refresh>>
    /\ UNCHANGED <<lvars, nvars>>

ONext ==
    \/ PDispatch
    \/ PGetAll
    \/ PHook
    \/ PUpdateSolr
    \/ OConnect
    \/ OReadOverride
    \/ OSubmit
    \/ OEndPlan
    \/ \E i \in 1..Len(task) : WorkerStart(i)
    \/ \E i \in 1..Len(task) : WorkerGetAll(i)
    \/ \E i \in 1..Len(task) : WorkerHook(i)
    \/ \E i \in 1..Len(task) : WorkerUpdateSolr(i)
    \/ \E i \in 1..Len(task) : OCollect(i)
    \/ OArchive

(* ------------------------------------------------------------------ *)
(* The normalisation of one cell                                       *)
(* ------------------------------------------------------------------ *)

\* a value: its Python type, the characters of a str or the digits of an int,
\* the elements of a list or ndarray, the fields of a datetime
\* <<day, hour, minute, second, microsecond, UTC offset in minutes>>
Value(type, text, elems, ts) == [type |-> type, text |-> text, elems |-> elems, ts |-> ts]

Str(text) == Value("str", text, <<>>, <<>>)
PyInt(digits) == Value("int", digits, <<>>, <<>>)
List(elems) == Value("list", <<>>, elems, <<>>)
NdArray(elems) == Value("ndarray", <<>>, elems, <<>>)
Datetime(ts) == Value("datetime", <<>>, <<>>, ts)
NaT == Value("NaT", <<>>, <<>>, <<>>)
None == Value("None", <<>>, <<>>, <<>>)
\* a NULL of a timestamptz column as the driver returns it
NullTimestamp == Value("None:timestamptz", <<>>, <<>>, <<>>)
JSONDecodeError == Value("JSONDecodeError", <<>>, <<>>, <<>>)
NoCell == Value("unset", <<>>, <<>>, <<>>)

DigitChars == <<"0", "1", "2", "3", "4", "5", "6", "7", "8", "9">>

\* the characters text cells are made of
JsonChars == {"[", "]", ",", "1", "\"", "x"}

\* s[i] stands inside a string literal
Quoted(s, i) == Cardinality({j \in 1..(i - 1) : s[j] = "\""}) % 2 = 1

\* nesting depth of s[i]
Depth(s, i) ==
    Cardinality({j \in 1..(i - 1) : s[j] = "[" /\ ~Quoted(s, j)})
        - Cardinality({j \in 1..(i - 1) : s[j] = "]" /\ ~Quoted(s, j)})

\* the commas that separate the elements of the array body s
Commas(s) == {i \in 1..Len(s) : s[i] = "," /\ ~Quoted(s, i) /\ Depth(s, i) = 0}

RECURSIVE SplitElements(_)
\* the element texts of the array body s
SplitElements(s) ==
    IF Commas(s) = {}
    THEN <<s>>
    ELSE LET c == CHOOSE i \in Commas(s) : \A j \in Commas(s) : i <= j
         IN <<SubSeq(s, 1, c - 1)>> \o SplitElements(SubSeq(s, c + 1, Len(s)))

\* a JSON integer: digits without a leading zero
IsNumber(s) ==
    /\ Len(s) >= 1
    /\ \A i \in 1..Len(s) : \E d \in 1..10 : s[i] = DigitChars[d]
    /\ Len(s) > 1 => s[1] # "0"

RECURSIVE JsonLoads(_)
\* json.loads of a text without white space: an integer, a string literal
\* without escapes, an array of values; anything else is a JSONDecodeError
JsonLoads(s) ==
    IF IsNumber(s)
    THEN PyInt(s)
    ELSE IF Len(s) >= 2 /\ s[1] = "\"" /\ s[Len(s)] = "\""
               /\ \A i \in 2..(Len(s) - 1) : s[i] # "\""
    THEN Str(SubSeq(s, 2, Len(s) - 1))
    ELSE IF Len(s) >= 2 /\ s[1] = "[" /\ s[Len(s)] = "]"
    THEN LET body == SubSeq(s, 2, Len(s) - 1)
             parts == SplitElements(body)
             values == [i \in 1..Len(parts) |-> JsonLoads(parts[i])]
         IN IF body = <<>>
            THEN List(<<>>)
            ELSE IF \E i \in 1..Len(values) : values[i] = JSONDecodeError
            THEN JSONDecodeError
            ELSE List(values)
    ELSE JSONDecodeError

\* a test that takes every decoded value
IsList_any(value) == value.type # "JSONDecodeError"

\* a test that also takes a decoded string
IsList_str(value) == value.type \in {"list", "str"}

\* isinstance(decoded_value, list) (utilities.py 46, main.py 134)
IsList(value) == value.type = "list"

\* convert_jsonb: a str that decodes to a list becomes the list; a str that
\* decodes to something else or does not decode, and every other value, is
\* returned as it is (utilities.py 41-51)
convert_jsonb(value) ==
    IF value.type = "str"
    THEN LET decoded_value == JsonLoads(value.text)
         IN IF decoded_value = JSONDecodeError
            THEN value
            ELSE IF IsList(decoded_value) THEN decoded_value ELSE value
    ELSE value

RECURSIVE FromArrow(_)
\* pa.Table.from_pandas, then to_pandas().to_dict(orient="records"): a list
\* comes back as an ndarray, a NULL of a timestamp column as NaT (main.py 53, 121)
FromArrow(value) ==
    CASE value.type = "list" ->
            NdArray([i \in 1..Len(value.elems) |-> FromArrow(value.elems[i])])
      [] value.type = "None:timestamptz" -> NaT
      [] OTHER -> value

\* a conversion that keeps the wall clock time and drops the offset
astimezone_utc_wallclock(ts) == <<ts[1], ts[2], ts[3], ts[4], ts[5], 0>>

\* value.astimezone(datetime.timezone.utc) (utilities.py 33)
astimezone_utc(ts) ==
    LET minutes == (ts[1] * 24 + ts[2]) * 60 + ts[3] - ts[6]
    IN <<minutes \div 1440, (minutes % 1440) \div 60, minutes % 60, ts[4], ts[5], 0>>

\* n as k decimal digits with leading zeros
RECURSIVE Digits(_, _)
Digits(n, k) == IF k = 0 THEN <<>> ELSE Digits(n \div 10, k - 1) \o <<DigitChars[(n % 10) + 1]>>

\* strftime('%Y-%m-%dT%H:%M:%S.%f') of a day of June 2024 (utilities.py 33)
strftime(ts) ==
    <<"2", "0", "2", "4", "-", "0", "6", "-">> \o Digits(ts[1], 2) \o <<"T">>
        \o Digits(ts[2], 2) \o <<":">> \o Digits(ts[3], 2) \o <<":">> \o Digits(ts[4], 2)
        \o <<".">> \o Digits(ts[5], 6)

\* [:-3] + 'Z' (utilities.py 33)
CutToMillis(s) == SubSeq(s, 1, Len(s) - 3) \o <<"Z">>

\* convert_timestamptz_to_date, for one value of the record: a datetime
\* becomes its UTC text, NaT becomes None (utilities.py 24-34)
convert_timestamptz_to_date(value) ==
    CASE value.type = "NaT" -> None
      [] value.type = "datetime" -> Str(CutToMillis(strftime(astimezone_utc(value.ts))))
      [] OTHER -> value

\* what the loop over the record of update_solr leaves in a field: the
\* timestamp conversion, then ndarray.tolist() or the list of a JSON text
\* (main.py 124-137)
NormaliseValue(value) ==
    LET v == convert_timestamptz_to_date(value)
    IN IF v.type = "ndarray"
       THEN List(v.elems)
       ELSE IF v.type = "str"
       THEN LET json_value == JsonLoads(v.text)
            IN IF json_value = JSONDecodeError
               THEN v
               ELSE IF IsList(json_value) THEN json_value ELSE v
       ELSE v

\* all texts of at most n characters
RECURSIVE TextsUpTo(_)
TextsUpTo(n) ==
    IF n = 0
    THEN {<<>>}
    ELSE LET shorter == TextsUpTo(n - 1)
         IN shorter \cup {Append(t, c) : t \in {u \in shorter : Len(u) = n - 1}, c \in JsonChars}

\* timestamps with time zone whose UTC date is a day of June 2024
Timestamps ==
    {ts \in {1, 10, 30} \X {0, 12, 23} \X {0, 34} \X {56} \X {0, 500, 789123, 999999}
                \X {-300, 0, 120} :
        (ts[1] * 24 + ts[2]) * 60 + ts[3] - ts[6] \in 1440..(31 * 1440 - 1)}

\* values the store driver returns
RawCells ==
    {Str(t) : t \in TextsUpTo(MaxLen)} \cup {Datetime(ts) : ts \in Timestamps}
        \cup {None, NullTimestamp, PyInt(<<"1">>), List(<<PyInt(<<"1">>), Str(<<"x">>)>>)}

\* values update_solr can find in a record
RecordCells ==
    {Str(t) : t \in TextsUpTo(MaxLen)} \cup {Datetime(ts) : ts \in Timestamps}
        \cup {None, NaT, PyInt(<<"1">>), NdArray(<<PyInt(<<"1">>), NdArray(<<>>)>>)}

\* a cell as the store returns it, or a record value of any content
NInit ==
    /\ table_cell = NoCell
    /\ normalised = NoCell
    /\ again = NoCell
    /\ \/ n_pc = "raw" /\ raw \in RawCells /\ record_cell = NoCell
       \/ n_pc = "record" /\ raw = NoCell /\ record_cell \in RecordCells

\* no cell under way
NIdle ==
    /\ n_pc = "off"
    /\ raw = NoCell
    /\ table_cell = NoCell
    /\ record_cell = NoCell
    /\ normalised = NoCell
    /\ again = NoCell

\* get_all / get_by_id build the DataFrame (main.py 47-50, 75-78)
NConvertJsonb ==
    /\ n_pc = "raw"
    /\ table_cell' = convert_jsonb(raw)
    /\ n_pc' = "table"
    /\ UNCHANGED <<raw, record_cell, normalised, again>>
    /\ UNCHANGED <<lvars, ovars>>

\* the table goes to update_solr, which reads its records (main.py 53, 121)
NToRecords ==
    /\ n_pc = "table"
    /\ record_cell' = FromArrow(table_cell)
    /\ n_pc' = "record"
    /\ UNCHANGED <<raw, table_cell, normalised, again>>
    /\ UNCHANGED <<lvars, ovars>>

\* update_solr normalises the record (main.py 124-137)
NNormalise ==
    /\ n_pc = "record"
    /\ normalised' = NormaliseValue(record_cell)
    /\ n_pc' = "normalised"
    /\ UNCHANGED <<raw, table_cell, record_cell, again>>
    /\ UNCHANGED <<lvars, ovars>>

\* the normalised value goes through convert_jsonb and the loop of update_solr
\* a second time
NAgain ==
    /\ n_pc = "normalised"
    /\ again' = NormaliseValue(convert_jsonb(normalised))
    /\ n_pc' = "again"
    /\ UNCHANGED <<raw, table_cell, record_cell, normalised>>
    /\ UNCHANGED <<lvars, ovars>>

NNext ==
    \/ NConvertJsonb
    \/ NToRecords
    \/ NNormalise
    \/ NAgain

vars == <<lvars, ovars, nvars>>

\* listener mode
Init == LInit /\ OIdle /\ NIdle

Next == LNext

Spec == Init /\ [][Next]_vars

\* full-refresh mode: process_all
InitOverride == OInit /\ LIdle /\ NIdle

SpecOverride == InitOverride /\ [][ONext]_vars

\* one cell from the store to the index
InitNorm == NInit /\ LIdle /\ OIdle

SpecNorm == InitNorm /\ [][NNext]_vars

(* ------------------------------------------------------------------ *)
(* Properties of the change-capture loop                               *)
(* ------------------------------------------------------------------ *)

LoopPcs == {"connect", "subscribe", "recover", "poll", "check", "get_by_id", "hook",
            "update_solr", "clean", "clear", "backoff", "finally"}

\* the step of C1
C1_Step ==
    failedSteps \cap (1..4) # {} =>
        /\ \A i \in 1..Len(persistent) : \E j \in 1..Len(persistent') :
                persistent'[j] = persistent[i]
        /\ notify_buffer' = notify_buffer

\* C1: once a flush has failed at step 1-4 (keyed fetch, normalise, hook or
\* index upsert), no step removes a row from the persistent notification
\* buffer and no step empties the in-memory buffer while that flush lasts.
C1_FailedFlushLeavesBuffers == [][C1_Step]_vars

\* the step of C2
C2_Step ==
    (pc = "clean" /\ pc' = "clear") =>
        persistent' = SelectSeq(persistent, LAMBDA r : r.payload \notin Range(notify_buffer))

\* C2: a flush whose acknowledge step returns to the loop, so that the flush
\* completes, has removed from the persistent buffer exactly the rows whose
\* payload is in its key list: all of them, and no other row.
C2_CompletedFlushAcknowledged == [][C2_Step]_vars

\* C3: a payload that was in the persistent buffer before the listener started
\* is never gone from the persistent buffer without the index having received it.
C3_AtLeastOnce ==
    \A p \in initialPayloads : p \in Range(PayloadsOf(persistent)) \/ p \in index

\* C5: every payload the store has buffered either has been in the key list of
\* some flush or is still in the persistent notification buffer.
C5_NoSilentDrop ==
    \A p \in everBuffered : p \in flushedKeys \/ p \in Range(PayloadsOf(persistent))

\* after a reconnect, both payloads have been in key lists and one of them
\* has left the persistent buffer
C5_Witness ==
    /\ reconnected
    /\ \E p \in everBuffered : p \notin Range(PayloadsOf(persistent))
    /\ Cardinality(flushedKeys) = 2

\* the step of C6
C6_Step ==
    failedSteps = {5} =>
        /\ notify_buffer' = notify_buffer
        /\ last_executed_time' = last_executed_time
        /\ (pc' # pc => pc' \in {"backoff", "finally", "connect"})

\* C6: once the acknowledge step of a flush has failed, the in-memory buffer
\* and the flush clock stay as they are and the loop goes to BACKOFF.
C6_FailedAckLeavesBuffer == [][C6_Step]_vars

\* the step of C7
C7_Step ==
    /\ (pc = "recover" /\ pc' = "poll") =>
            notify_buffer' = [i \in 1..Len(persistent) |-> persistent[i].payload]
    /\ pc' \in {"poll", "check", "get_by_id", "hook", "update_solr", "clean", "clear"} =>
            /\ Len(recovered') <= Len(notify_buffer')
            /\ \A i \in 1..Len(recovered') : notify_buffer'[i] = recovered'[i]

\* C7: RECOVER leaves in the in-memory buffer exactly the payloads of the
\* persistent buffer, in fetch order, whatever the buffer held before; and
\* until the first flush after the (re)connect ends, the recovered payloads are
\* the head of the buffer, ahead of every live notification.
C7_RecoverRefill == [][C7_Step]_vars

\* the first flush after a reconnect starts with recovered payloads and a live one
C7_Witness ==
    /\ reconnected
    /\ pc = "get_by_id"
    /\ recovered # <<>>
    /\ Len(notify_buffer) > Len(recovered)

\* the step of C8
C8_Step ==
    /\ (pc = "check" /\ pc' # pc) =>
            ((pc' = "get_by_id") <=>
                (/\ Len(notify_buffer) > 0
                 /\ \/ Len(notify_buffer) > IDX_BUFFER_SIZE
                    \/ now - last_executed_time >= IDX_BUFFER_DURATION))
    /\ pc' = "get_by_id" => Len(notify_buffer') > 0

\* C8: a poll iteration starts a flush if and only if the buffer is non-empty
\* and (it holds more than IDX_BUFFER_SIZE payloads or IDX_BUFFER_DURATION has
\* passed since last_executed_time); get_by_id never gets an empty key list.
C8_FlushIff == [][C8_Step]_vars

\* a flush started by the duration trigger exactly at the threshold, with a
\* buffer of exactly IDX_BUFFER_SIZE payloads
C8_Witness ==
    /\ pc = "get_by_id"
    /\ Len(notify_buffer) = IDX_BUFFER_SIZE
    /\ now - last_executed_time = IDX_BUFFER_DURATION

\* the step of C10
C10_Step ==
    /\ pc' \in LoopPcs
    /\ exc' # "none" => pc' = "backoff"
    /\ (pc = "backoff" /\ pc' # pc) =>
            /\ pc' = "finally"
            /\ now' = IF now + IDX_BUFFER_RETRY_SECONDS <= MaxTime
                      THEN now + IDX_BUFFER_RETRY_SECONDS ELSE MaxTime
    /\ (pc = "finally" /\ pc' # pc) => pc' = "connect"
    /\ pc = "backoff" => ENABLED Backoff
    /\ pc = "finally" => ENABLED Finally

\* C10: the loop never leaves its positions; a step that raises puts the loop
\* in BACKOFF; BACKOFF sleeps the retry delay and goes to the finally block,
\* which goes back to CONNECT; neither of the two can be stuck.
C10_LoopNeverExits == [][C10_Step]_vars

\* back at CONNECT after a first connection attempt that failed
C10_Witness ==
    /\ reconnected
    /\ pc = "connect"
    /\ listener_conn = "unbound"

(* ------------------------------------------------------------------ *)
(* Properties of the override reindex planner                          *)
(* ------------------------------------------------------------------ *)

\* C4: when process_index_override has ended with an override record read,
\* clean_index_override has been invoked if and only if every submitted
\* sub-window task returned success (none of them raised).
C4_ArchiveIffAllSucceeded ==
    (o_pc = "done" /\ ret \in {"True", "None"} /\ Len(futures) > 0) =>
        (archive_called <=> \A i \in 1..Len(task) : task[i] = "returned")

\* C9: for source_ts <= target_ts the planner submits
\* (target_ts - source_ts) \div STEP + 1 sub-windows; the first starts at
\* source_ts, each is STEP days wide and starts where the previous one ends,
\* every start is <= target_ts and only the last end is > target_ts; equal
\* timestamps give the one window [source_ts, source_ts + STEP], and
\* day 1 to day 20 with STEP 7 gives [1,8], [8,15], [15,22].
C9_SubWindows ==
    ((o_pc = "await" \/ archive_called) /\ source_ts <= target_ts) =>
        /\ Len(futures) = ((target_ts - source_ts) \div IDX_OVERRIDE_TIMESTEP_DAY_SIZE) + 1
        /\ futures[1].batch_start_ts = source_ts
        /\ \A k \in 1..Len(futures) :
            /\ futures[k].batch_end_ts = futures[k].batch_start_ts + IDX_OVERRIDE_TIMESTEP_DAY_SIZE
            /\ futures[k].batch_start_ts <= target_ts
            /\ (futures[k].batch_end_ts > target_ts) <=> (k = Len(futures))
            /\ k > 1 => futures[k].batch_start_ts = futures[k - 1].batch_end_ts
        /\ source_ts = target_ts =>
            futures = <<[batch_start_ts |-> source_ts,
                         batch_end_ts |-> source_ts + IDX_OVERRIDE_TIMESTEP_DAY_SIZE]>>
        /\ (source_ts = 1 /\ target_ts = 20 /\ IDX_OVERRIDE_TIMESTEP_DAY_SIZE = 7) =>
            futures = <<[batch_start_ts |-> 1, batch_end_ts |-> 8],
                        [batch_start_ts |-> 8, batch_end_ts |-> 15],
                        [batch_start_ts |-> 15, batch_end_ts |-> 22]>>

\* the planner has ended for the window of day 1 to day 20, three tasks submitted
C9_Witness ==
    /\ o_pc = "done"
    /\ source_ts = 1
    /\ target_ts = 20
    /\ Len(futures) = 3

\* C11: at no time are more than IDX_OVERRIDE_CONCURRENT_THREAD_COUNT
\* sub-window tasks executing process_batch at once.
C11_PoolBound ==
    Cardinality({i \in 1..Len(task) : task[i] \in {"get_all", "hook", "update_solr"}})
        <= IDX_OVERRIDE_CONCURRENT_THREAD_COUNT

\* the pool is full and a submitted task waits in its queue
C11_Witness ==
    /\ Cardinality({i \in 1..Len(task) : task[i] \in {"get_all", "hook", "update_solr"}})
        = IDX_OVERRIDE_CONCURRENT_THREAD_COUNT
    /\ \E i \in 1..Len(task) : task[i] = "queued"

\* C12: when clean_index_override is invoked, and when process_index_override
\* has returned, every submitted sub-window task has ended (returned or
\* raised) and none is queued or running; a task that raised has not kept
\* the planner from running and awaiting the others and from going on to
\* the archive.
C12_AllAwaited ==
    /\ (archive_called \/ o_pc = "done") =>
            \A i \in 1..Len(task) : task[i] \in {"returned", "raised"}
    /\ (o_pc = "done" /\ Len(futures) > 0) => archive_called

\* the first task raised, a later one ran to its upsert, the archive was called
C12_Witness ==
    /\ archive_called
    /\ Len(task) >= 3
    /\ task[1] = "raised"
    /\ task[3] = "returned"
    /\ 3 \in upserts

\* C13: once process_all is past its call of process_index_override, the
\* get_all() without a window has been called when the planner returned
\* False, having found no override record, and only then: with an override
\* record in the store it is never called.
C13_RefreshIffNoOverride ==
    p_pc \notin {"off", "planner"} =>
        /\ ret = "False" => (~has_override /\ refresh # "none")
        /\ has_override => refresh = "none"

(* ------------------------------------------------------------------ *)
(* Properties of one flush                                             *)
(* ------------------------------------------------------------------ *)

\* the step of C14
C14_Step ==
    /\ (pc = "recover" /\ pc' = "poll") =>
            notify_buffer' = [i \in 1..Len(persistent) |-> persistent[i].payload]
    /\ (pc = "poll" /\ pc' = "check") => notify_buffer' = notify_buffer \o notifies
    /\ (pc = "get_by_id" /\ pc' # pc) => fetched_keys' = <<notify_buffer>>
    /\ (pc = "update_solr" /\ pc' # pc) =>
            /\ posted' \in {<<>>, <<data>>}
            /\ 2 \notin failedSteps' => posted' = <<data>>
    /\ pc' \in {"hook", "update_solr", "clean", "clear"} =>
            /\ fetched_keys' = <<notify_buffer'>>
            /\ Len(data') = Len(notify_buffer')
    /\ pc' \in {"poll", "check", "get_by_id", "hook", "update_solr"} => posted' = <<>>

C15_AbsentHookContinues ==
    hook_outcome = "absent" =>
        /\ 3 \notin failedSteps
        /\ data = notify_buffer
        /\ \/ pc \in {"update_solr", "clean", "clear"} /\ exc = "none"
           \/ pc \in {"backoff", "finally"} /\ 5 \in failedSteps

\* a flush without a transform has been upserted and acknowledged and is
\* about to clear its buffer
C15_Witness ==
    /\ hook_outcome = "absent"
    /\ pc = "clear"
    /\ failedSteps = {}
    /\ notify_buffer # <<>>
    /\ Range(notify_buffer) \subseteq index
    /\ \A i \in 1..Len(persistent) : persistent[i].payload \notin Range(notify_buffer)

\* C16: the listener has closed its connection before it connects again, and
\* an exception that began as a failure to open a connection is still that
\* error when it reaches the handlers of event_listener.
C16_ReleasedAndUnmasked ==
    /\ (pc = "connect" /\ reconnected) => listener_conn \in {"unbound", "closed"}
    /\ (exc # "none" /\ cause = "OperationalError") => exc = "OperationalError"

(* ------------------------------------------------------------------ *)
(* Properties of the normalisation                                     *)
(* ------------------------------------------------------------------ *)

\* C17: a text cell whose text is a JSON array is replaced by that array, in
\* convert_jsonb and in the loop of update_solr alike; a text that is other
\* JSON or no JSON stays the same text, no error comes out, and a cell that
\* is not text is returned by convert_jsonb as it is.
C17_JsonArrayOnly ==
    /\ (n_pc \in {"table", "record", "normalised", "again"} /\ raw # NoCell) =>
            /\ table_cell.type # "JSONDecodeError"
            /\ IF raw.type = "str" /\ JsonLoads(raw.text).type = "list"
               THEN table_cell = JsonLoads(raw.text)
               ELSE table_cell = raw
            /\ raw = Str(<<"[", "1", "]">>) => table_cell = List(<<PyInt(<<"1">>)>>)
            /\ raw = Str(<<"[", "]">>) => table_cell = List(<<>>)
            /\ raw \in {Str(<<"x">>), Str(<<"1">>), Str(<<"\"", "x", "\"">>), Str(<<"[", "1">>)} =>
                    table_cell = raw
    /\ (n_pc \in {"normalised", "again"} /\ record_cell.type = "str") =>
            /\ normalised.type # "JSONDecodeError"
            /\ IF JsonLoads(record_cell.text).type = "list"
               THEN normalised = JsonLoads(record_cell.text)
               ELSE normalised = record_cell
            /\ record_cell = Str(<<"[", "[", "]", "]">>) => normalised = List(<<List(<<>>)>>)
            /\ record_cell = Str(<<"\"", "[", "]", "\"">>) => normalised = record_cell

\* the text [1] of an array of one number has become a list on its way to
\* the table
C17_Witness ==
    /\ n_pc = "record"
    /\ raw = Str(<<"[", "1", "]">>)
    /\ table_cell = List(<<PyInt(<<"1">>)>>)

\* the number a run of digit characters stands for
RECURSIVE DigitsValue(_)
DigitsValue(s) ==
    IF s = <<>>
    THEN 0
    ELSE DigitsValue(SubSeq(s, 1, Len(s) - 1)) * 10
            + (CHOOSE d \in 0..9 : DigitChars[d + 1] = s[Len(s)])

\* C18: a timestamp with time zone leaves the normalisation as a text of the
\* form 2024-06-DDTHH:MM:SS.sssZ that names the same instant in UTC, with
\* three fractional digits cut (not rounded) from the microseconds; a NULL
\* timestamp leaves it as None.
C18_UtcMillis ==
    /\ (n_pc \in {"normalised", "again"} /\ record_cell.type = "datetime") =>
            LET t == normalised.text
                ts == record_cell.ts
                D == DigitsValue(SubSeq(t, 9, 10))
                H == DigitsValue(SubSeq(t, 12, 13))
                M == DigitsValue(SubSeq(t, 15, 16))
                S == DigitsValue(SubSeq(t, 18, 19))
                ms == DigitsValue(SubSeq(t, 21, 23))
            IN /\ normalised.type = "str"
               /\ Len(t) = 24
               /\ SubSeq(t, 1, 8) = <<"2", "0", "2", "4", "-", "0", "6", "-">>
               /\ t[11] = "T" /\ t[14] = ":" /\ t[17] = ":" /\ t[20] = "." /\ t[24] = "Z"
               /\ \A i \in {9, 10, 12, 13, 15, 16, 18, 19, 21, 22, 23} :
                    \E d \in 1..10 : t[i] = DigitChars[d]
               /\ H \in 0..23 /\ M \in 0..59
               /\ (D * 24 + H) * 60 + M = (ts[1] * 24 + ts[2]) * 60 + ts[3] - ts[6]
               /\ S = ts[4]
               /\ ms * 1000 <= ts[5] /\ ts[5] < (ms + 1) * 1000
    /\ (n_pc \in {"normalised", "again"} /\ record_cell = Datetime(<<1, 12, 34, 56, 789123, 120>>)) =>
            normalised = Str(<<"2", "0", "2", "4", "-", "0", "6", "-", "0", "1", "T",
                               "1", "0", ":", "3", "4", ":", "5", "6", ".", "7", "8", "9", "Z">>)
    /\ (n_pc \in {"normalised", "again"} /\ record_cell.type \in {"NaT", "None"}) =>
            normalised = None

\* 2024-06-10 00:34:56.999999+02:00 has become 2024-06-09T22:34:56.999Z
C18_Witness ==
    /\ n_pc = "normalised"
    /\ record_cell = Datetime(<<10, 0, 34, 56, 999999, 120>>)
    /\ normalised = Str(<<"2", "0", "2", "4", "-", "0", "6", "-", "0", "9", "T",
                          "2", "2", ":", "3", "4", ":", "5", "6", ".", "9", "9", "9", "Z">>)

\* C19: a value that has been normalised is left as it is by a second
\* normalisation.
C19_Idempotent == n_pc = "again" => again = normalised

\* the second normalisation has been applied to a list that came from a JSON
\* text, to a list that came from an array, and to the text of a timestamp
C19_Witness ==
    /\ n_pc = "again"
    /\ \/ record_cell = Str(<<"[", "\"", "\"", "]">>) /\ again = List(<<Str(<<>>)>>)
       \/ record_cell.type = "ndarray" /\ again.type = "list"
       \/ record_cell.type = "datetime" /\ again.type = "str"

(* ------------------------------------------------------------------ *)
(* Properties of the empty batch                                       *)
(* ------------------------------------------------------------------ *)

\* C20: a process_batch call whose get_all returned no rows has returned
\* without calling update_solr, and an update_solr call that was handed a
\* table without rows has sent nothing to the index.
C20_EmptyNoWrite ==
    /\ \A i \in 1..Len(task) :
            task_rows[i] = "empty" => (task[i] = "returned" /\ i \notin invoked)
    /\ refresh = "empty" => p_add = "none"

(* ------------------------------------------------------------------ *)
(* Properties of the notifications around a flush and a reconnect      *)
(* ------------------------------------------------------------------ *)

\* C21: a payload the store has notified after the fetch of a flush, and
\* that no later flush has fetched, still has a row in the persistent
\* buffer, or waits on the live connection or in the buffer of the running
\* loop.
C21_AckKeepsNewer ==
    \A p \in late :
        \/ \E i \in 1..Len(persistent) : persistent[i].payload = p
        \/ /\ listener_conn = "listening"
           /\ pc \notin {"backoff", "finally"}
           /\ \E i \in 1..Len(notifies) : notifies[i] = p
        \/ /\ listener_conn = "listening"
           /\ pc \notin {"backoff", "finally"}
           /\ \E i \in 1..Len(notify_buffer) : notify_buffer[i] = p

\* every row of the persistent buffer has its payload in the in-memory
\* buffer or queued on the connection
C22_Covered ==
    \A i \in 1..Len(persistent) :
        \/ \E j \in 1..Len(notify_buffer) : notify_buffer[j] = persistent[i].payload
        \/ \E j \in 1..Len(notifies) : notifies[j] = persistent[i].payload

\* the step of C22
C22_Step ==
    /\ (pc = "subscribe" /\ pc' \notin {pc, "backoff"}) => listener_conn' = "listening"
    /\ (pc = "recover" /\ pc' \notin {pc, "backoff"}) => listener_conn = "listening"
    /\ (pc \in {"subscribe", "recover"} /\ pc' = "poll") => C22_Covered'
    /\ (listener_conn = "listening" /\ Len(persistent') > Len(persistent)) =>
            notifies' = Append(notifies, persistent'[Len(persistent')].payload)
    /\ (C22_Covered /\ pc \in {"poll", "check"} /\ pc' \in {"poll", "check", "get_by_id"}) =>
            C22_Covered'

\* C22: on every connection the LISTEN has been executed when the
\* persistent buffer is read; a notification the store emits from then on
\* is queued on the connection, so when the poll loop is entered, and as
\* long as it polls, every buffered row has its payload in the in-memory
\* buffer or in the queue of the connection.
C22_ListenBeforeDrain == [][C22_Step]_vars

\* after a reconnect, a notification emitted between LISTEN and the read of
\* the persistent buffer is both in the recovered buffer and in the queue
C22_Witness ==
    /\ pc = "poll"
    /\ reconnected
    /\ Len(notifies) = 1
    /\ Len(persistent) >= 1
    /\ recovered = [i \in 1..Len(persistent) |-> persistent[i].payload]
    /\ notify_buffer = recovered
    /\ persistent[Len(persistent)].payload = notifies[1]

\* the step of C23
C23_Step ==
    /\ pc \in {"get_by_id", "hook", "update_solr", "clean"} => notify_buffer' = notify_buffer
    /\ (pc \in {"get_by_id", "hook", "update_solr", "clean", "clear"}
            /\ Len(persistent') > Len(persistent) /\ listener_conn = "listening") =>
            /\ notifies' = Append(notifies, persistent'[Len(persistent')].payload)
            /\ notify_buffer' = notify_buffer
    /\ (pc = "clean" /\ pc' = "clear" /\ 5 \notin failedSteps') =>
            /\ Len(fetched_keys) = 1
            /\ persistent' = SelectSeq(persistent,
                    LAMBDA r : \A k \in 1..Len(fetched_keys[1]) : fetched_keys[1][k] # r.payload)
    /\ (pc = "clear" /\ pc' # pc) =>
            /\ fetched_keys = <<notify_buffer>>
            /\ notify_buffer' = <<>>
            /\ notifies' = notifies
    /\ (pc = "poll" /\ pc' = "check") => notify_buffer' = notify_buffer \o notifies

\* C23: from the fetch of a flush to its clear nothing is appended to the
\* in-memory buffer; the acknowledge removes the rows of exactly the keys
\* that were handed to get_by_id, the clear discards exactly those keys, and
\* a notification that arrives in between stays queued on the connection
\* until the next poll appends it.
C23_StableSnapshot == [][C23_Step]_vars

\* a flush of two keys is about to clear while a notification that arrived
\* after its fetch waits on the connection
C23_Witness ==
    /\ pc = "clear"
    /\ failedSteps = {}
    /\ Len(notify_buffer) = 2
    /\ notify_buffer[1] # notify_buffer[2]
    /\ fetched_keys = <<notify_buffer>>
    /\ late # {}
    /\ notifies # <<>>

\* the step of C24
C24_Step ==
    /\ last_executed_time' # last_executed_time =>
            \/ pc = "recover"
            \/ pc = "clear" /\ failedSteps = {}
    /\ (pc \in {"poll", "check"} /\ notify_buffer = <<>>) =>
            last_executed_time' = last_executed_time
    /\ (pc = "check" /\ pc' # pc /\ notify_buffer # <<>>
            /\ now - last_executed_time >= IDX_BUFFER_DURATION) => pc' = "get_by_id"

\* C24: last_executed_time changes only at RECOVER and at the clear that
\* ends a flush none of whose steps failed, never in a poll iteration with
\* an empty buffer; so when the duration has elapsed, the iteration whose
\* poll leaves a payload in the buffer starts the flush.
C24_FlushClock == [][C24_Step]_vars

====
